---------------------------- MODULE Spec2Model ----------------------------
(***************************************************************************)
(* Model of packages/gemma-tokenizer/src/lib.rs: the path resolver, the    *)
(* write-once global TOKENIZER cell, the two initialisation entry points   *)
(* and the encode / count queries, called by several host threads.         *)
(***************************************************************************)
EXTENDS Integers, Sequences, FiniteSets, TLC

(***************************************************************************)
(* Bounds of the model.                                                    *)
(***************************************************************************)
NumThreads == 2

Threads == 1..NumThreads

(***************************************************************************)
(* Machine integers.  TLC's integers stop at 2^31 - 1, so a usize (64 bit  *)
(* on the native target, where init(path) and the tests run) is kept as    *)
(* four 16-bit limbs, least significant first, and a u32 as two.           *)
(***************************************************************************)
LimbBase == 2^16

Num(l0, l1, l2, l3) == <<l0, l1, l2, l3>>

Zero64 == Num(0, 0, 0, 0)

One64 == Num(1, 0, 0, 0)

\* a + b on usize, wrapping at 2^64 as the hardware does
RECURSIVE AddLimbs(_, _, _, _)
AddLimbs(a, b, i, carry) ==
    IF i > 4 THEN <<>>
    ELSE LET s == a[i] + b[i] + carry
         IN  <<s % LimbBase>> \o AddLimbs(a, b, i + 1, s \div LimbBase)

Add64(a, b) == AddLimbs(a, b, 1, 0)

\* a <= b on equally long limb sequences
RECURSIVE LeLimbs(_, _, _)
LeLimbs(a, b, i) ==
    IF i = 0 THEN TRUE
    ELSE IF a[i] # b[i] THEN a[i] < b[i]
    ELSE LeLimbs(a, b, i - 1)

Le64(a, b) == LeLimbs(a, b, 4)

\* u32::MAX
U32_MAX == <<LimbBase - 1, LimbBase - 1>>

\* the u32 value v as a usize
Widen(v) == Num(v[1], v[2], 0, 0)

\* n as u32: the low 32 bits
U32WrapCast(n) == <<n[1], n[2]>>

\* u32::try_from(n).unwrap_or(u32::MAX)
U32TryFromOrMax(n) ==
    IF n[3] = 0 /\ n[4] = 0 THEN <<n[1], n[2]>> ELSE U32_MAX

(***************************************************************************)
(* Paths.  A file name is a sequence of characters, a path a sequence of   *)
(* file names.  All paths of the model are valid UTF-8, as the strings a   *)
(* host passes are.                                                        *)
(***************************************************************************)
N_tokenizer_json == <<"t","o","k","e","n","i","z","e","r",".","j","s","o","n">>
N_model          == <<"m","o","d","e","l">>
N_spm_model      == <<"s","p","m",".","m","o","d","e","l">>
N_b_JSON         == <<"b",".","J","S","O","N">>
N_bad_json       == <<"b","a","d",".","j","s","o","n">>
N_dot_json       == <<".","j","s","o","n">>
N_nope           == <<"n","o","p","e">>

\* Path::join with a relative name
Join(p, name) == Append(p, name)

\* Path::display: the components separated by "/"
RECURSIVE Display(_)
Display(p) ==
    IF Len(p) = 0 THEN <<>>
    ELSE IF Len(p) = 1 THEN p[1]
    ELSE p[1] \o <<"/">> \o Display(Tail(p))

\* index of the last "." of a name, 0 when it has none
RECURSIVE LastDot(_, _)
LastDot(name, i) ==
    IF i = 0 THEN 0
    ELSE IF name[i] = "." THEN i
    ELSE LastDot(name, i - 1)

NoExt == <<"<none>">>

\* Path::extension of the last component: the part after the last ".",
\* none when the name has no "." or only a leading one
Extension(p) ==
    LET name == p[Len(p)]
        d    == LastDot(name, Len(name))
    IN  IF d <= 1 THEN NoExt ELSE SubSeq(name, d + 1, Len(name))

Lower(c) ==
    CASE c = "J" -> "j"
      [] c = "S" -> "s"
      [] c = "O" -> "o"
      [] c = "N" -> "n"
      [] OTHER   -> c

\* a comparison that minds the case
EqExactCase(a, b) == a = b

\* str::eq_ignore_ascii_case
EqIgnoreAsciiCase(a, b) ==
    /\ Len(a) = Len(b)
    /\ \A i \in 1..Len(a) : Lower(a[i]) = Lower(b[i])


(***************************************************************************)
(* Values: Option as a sequence of length at most one, Result as a record, *)
(* an error message as the text before the path, the displayed path and    *)
(* the text after it.                                                      *)
(***************************************************************************)
None == <<>>

Some(v) == <<v>>

Msg(pre, path, post) == [pre |-> pre, path |-> path, post |-> post]

Ok(v) == [ok |-> TRUE, val |-> v]

Err(m) == [ok |-> FALSE, err |-> m]

Unit == "()"

(***************************************************************************)
(* Tokenizer definitions (the JSON text of a tokenizer.json) and the       *)
(* external tokenizers library: Tokenizer::from_str / from_file build an   *)
(* immutable Tokenizer from a well-formed definition, Tokenizer::encode    *)
(* maps a text to an Encoding.  A text and the ids of an Encoding are      *)
(* run-length coded: a run is a character (an id) and a usize count.       *)
(***************************************************************************)
DefA == [version |-> "1.0", vocab |-> [c \in {"a", "b"} |-> IF c = "a" THEN 1 ELSE 2], bos |-> 0]

DefB == [version |-> "1.0", vocab |-> [c \in {"a", "b", "?"} |-> IF c = "a" THEN 3 ELSE IF c = "b" THEN 4 ELSE 5], bos |-> 0]

DefC == [version |-> "1.0", vocab |-> [c \in {"a", "b"} |-> IF c = "a" THEN 6 ELSE 7], bos |-> 9]

Corrupt == [version |-> "", vocab |-> <<>>, bos |-> 0]

SpmBlob == [version |-> "spm", vocab |-> <<>>, bos |-> 0]

\* Tokenizer::from_str
FromStr(json) ==
    IF json.version = "1.0"
    THEN Ok([vocab |-> json.vocab, bos |-> json.bos])
    ELSE Err("invalid tokenizer definition")

Run(c, n) == [ch |-> c, n |-> n]

T_hello == <<Run("a", One64), Run("b", Num(2, 0, 0, 0))>>

T_unk == <<Run("?", One64)>>

\* 2^32 - 1 characters
T_max == <<Run("b", Num(LimbBase - 1, LimbBase - 1, 0, 0))>>

\* 2^32 + 1 characters
T_huge == <<Run("a", Num(1, 0, 1, 0))>>

Texts == {T_hello, T_unk, T_max, T_huge}

\* Tokenizer::encode(text, add_special_tokens)
TokEncode(tok, text, add_special_tokens) ==
    IF \E i \in 1..Len(text) : text[i].ch \notin DOMAIN tok.vocab
    THEN Err("token not in vocabulary")
    ELSE Ok([ids |-> (IF add_special_tokens THEN <<[id |-> tok.bos, n |-> One64]>> ELSE <<>>)
                     \o [i \in 1..Len(text) |-> [id |-> tok.vocab[text[i].ch], n |-> text[i].n]]])

\* number of elements of a run-length coded vector
RECURSIVE VecLen(_)
VecLen(v) == IF Len(v) = 0 THEN Zero64 ELSE Add64(v[1].n, VecLen(Tail(v)))

\* Encoding::len
EncodingLen(encoding) == VecLen(encoding.ids)

\* Encoding::get_ids().to_vec()
GetIds(encoding) == encoding.ids

(***************************************************************************)
(* The filesystem: a function from the paths that exist to their entries.  *)
(***************************************************************************)
Dir == [kind |-> "dir", data |-> Corrupt]

File(data) == [kind |-> "file", data |-> data]

\* a device node, socket or fifo: it exists and is neither a directory nor a file
Other == [kind |-> "other", data |-> Corrupt]

EmptyFs == [p \in {} |-> Dir]

\* Path::is_dir, Path::is_file
IsDir(f, p) == p \in DOMAIN f /\ f[p].kind = "dir"

IsFile(f, p) == p \in DOMAIN f /\ f[p].kind = "file"

\* Tokenizer::from_file
FromFile(f, p) ==
    IF IsFile(f, p) THEN FromStr(f[p].data) ELSE Err("No such file or directory")

\* the filesystem of the concurrent hosts: a model directory and a damaged file
P_model      == <<N_model>>
P_model_json == <<N_model, N_tokenizer_json>>
P_bad        == <<N_bad_json>>
P_nope       == <<N_nope>>

FsInit ==
    (P_model :> Dir) @@ (P_model_json :> File(DefA)) @@ (P_bad :> File(Corrupt))

\* what the concurrent hosts pass to init, init_from_json, encode and count
InitPaths == {P_model, P_bad, P_nope}

JsonArgs == {DefB, Corrupt}

TextArgs == {T_hello, T_unk}

\* the filesystems of the sequential host: one top-level entry of any kind
\* and, under a directory, nothing, a legacy model or a tokenizer.json of any kind
RootNames == {N_model, N_b_JSON, N_spm_model, N_dot_json}

Entries == {File(DefA), File(Corrupt), Dir, Other}

FsSet ==
    {EmptyFs}
    \cup {(<<n>> :> e) : n \in RootNames, e \in Entries}
    \cup {(<<n>> :> Dir) @@ (<<n, N_spm_model>> :> File(SpmBlob)) : n \in RootNames}
    \cup {(<<n>> :> Dir) @@ (<<n, N_tokenizer_json>> :> e) : n \in RootNames, e \in Entries}

SeqPaths ==
    {<<n>> : n \in RootNames}
    \cup {<<n, N_tokenizer_json>> : n \in RootNames}
    \cup {<<n, N_spm_model>> : n \in RootNames}

SeqJsonArgs == {DefB, DefC, Corrupt}

(***************************************************************************)
(* resolve_model_path                                                      *)
(***************************************************************************)
JsonExt == <<"j", "s", "o", "n">>

ModelPathKind_Json(p) == [kind |-> "Json", path |-> p]

ErrNoJsonInDir(p) ==
    Msg("No tokenizer.json found in directory: ", Display(p),
        ". Convert .model to tokenizer.json first.")

ErrNotJson(p) == Msg("Provided file is not tokenizer.json: ", Display(p), "")

ErrNotExist(p) == Msg("Path does not exist: ", Display(p), "")

\* the resolver with exists() in place of is_file()
resolve_exists(f, p) ==
    IF IsDir(f, p)
    THEN LET json == Join(p, N_tokenizer_json)
         IN  IF IsFile(f, json)
             THEN Ok(ModelPathKind_Json(json))
             ELSE Err(ErrNoJsonInDir(p))
    ELSE IF p \in DOMAIN f
    THEN LET ext     == Extension(p)
             is_json == ext # NoExt /\ EqIgnoreAsciiCase(ext, JsonExt)
         IN  IF is_json
             THEN Ok(ModelPathKind_Json(p))
             ELSE Err(ErrNotJson(p))
    ELSE Err(ErrNotExist(p))

\* the resolver reporting the file it looked for instead of the directory
resolve_reports_json(f, p) ==
    IF IsDir(f, p)
    THEN LET json == Join(p, N_tokenizer_json)
         IN  IF IsFile(f, json)
             THEN Ok(ModelPathKind_Json(json))
             ELSE Err(ErrNoJsonInDir(json))
    ELSE IF IsFile(f, p)
    THEN LET ext     == Extension(p)
             is_json == ext # NoExt /\ EqIgnoreAsciiCase(ext, JsonExt)
         IN  IF is_json
             THEN Ok(ModelPathKind_Json(p))
             ELSE Err(ErrNotJson(p))
    ELSE Err(ErrNotExist(p))

resolve_model_path(f, p) ==
    IF IsDir(f, p)
    THEN LET json == Join(p, N_tokenizer_json)
         IN  IF IsFile(f, json)
             THEN Ok(ModelPathKind_Json(json))
             ELSE Err(ErrNoJsonInDir(p))
    ELSE IF IsFile(f, p)
    THEN LET ext     == Extension(p)
             is_json == ext # NoExt /\ EqIgnoreAsciiCase(ext, JsonExt)
         IN  IF is_json
             THEN Ok(ModelPathKind_Json(p))
             ELSE Err(ErrNotJson(p))
    ELSE Err(ErrNotExist(p))


(***************************************************************************)
(* The global cell and the functions over it.                              *)
(***************************************************************************)
ErrAlready == Msg("Tokenizer already initialized", <<>>, "")

ErrNotInit == Msg("Tokenizer is not initialized. Call init(path) first.", <<>>, "")

ErrLoad(json_path, e) == Msg("Failed to load tokenizer from ", Display(json_path), e)

ErrEncode(e) == Msg("Failed to encode text: ", <<>>, e)

JsValue(e) == Msg(e, <<>>, "")

\* a plain mutable static: every set stores
OnceCellSetOverwrite(cell, value) == [cell |-> Some(value), ok |-> TRUE]

\* a set whose failure is dropped: the first value stays, every caller is told Ok
OnceCellSetSilent(cell, value) ==
    [cell |-> IF cell = None THEN Some(value) ELSE cell, ok |-> TRUE]

\* a set that publishes the tokenizer before its vocabulary is in place
OnceCellSetTorn(cell, value) ==
    IF cell = None
    THEN [cell |-> Some([vocab |-> <<>>, bos |-> value.bos]), ok |-> TRUE]
    ELSE [cell |-> cell, ok |-> FALSE]

\* OnceCell::set: stores the value when the cell is empty, fails otherwise
OnceCellSet(cell, value) ==
    IF cell = None
    THEN [cell |-> Some(value), ok |-> TRUE]
    ELSE [cell |-> cell, ok |-> FALSE]

get_tokenizer(cell) ==
    IF cell = None THEN Err(ErrNotInit) ELSE Ok(cell[1])

\* count_internal encoding with the special tokens added
count_internal_special(cell, text) ==
    LET tok == get_tokenizer(cell)
    IN  IF ~tok.ok THEN tok
        ELSE LET encoding == TokEncode(tok.val, text, TRUE)
             IN  IF ~encoding.ok THEN Err(ErrEncode(encoding.err))
                 ELSE Ok(EncodingLen(encoding.val))

count_internal(cell, text) ==
    LET tok == get_tokenizer(cell)
    IN  IF ~tok.ok THEN tok
        ELSE LET encoding == TokEncode(tok.val, text, FALSE)
             IN  IF ~encoding.ok THEN Err(ErrEncode(encoding.err))
                 ELSE Ok(EncodingLen(encoding.val))

\* encode with the zero sentinel of count in place of the error
encode_sentinel(cell, text) ==
    IF cell = None THEN Ok(<<>>)
    ELSE LET encoding == TokEncode(cell[1], text, FALSE)
         IN  IF ~encoding.ok THEN Err(ErrEncode(encoding.err))
             ELSE Ok(GetIds(encoding.val))

encode(cell, text) ==
    LET tok == get_tokenizer(cell)
    IN  IF ~tok.ok THEN tok
        ELSE LET encoding == TokEncode(tok.val, text, FALSE)
             IN  IF ~encoding.ok THEN Err(ErrEncode(encoding.err))
                 ELSE Ok(GetIds(encoding.val))

\* count mapping an error to u32::MAX
count_err_max(cell, text) ==
    LET r == count_internal(cell, text)
    IN  IF r.ok THEN U32TryFromOrMax(r.val) ELSE U32_MAX

count(cell, text) ==
    LET r == count_internal(cell, text)
    IN  IF r.ok THEN U32TryFromOrMax(r.val) ELSE <<0, 0>>

(***************************************************************************)
(* State.  TOKENIZER is the global cell and fs the filesystem.  Each host  *)
(* thread runs one call at a time: op and arg are the call, pc its         *)
(* position, loc its local value (the resolved path, then the loaded       *)
(* tokenizer; for count the value of count_internal) and ret what it       *)
(* returned.  History variables: pre[t] tells whether the cell was set     *)
(* when the call of t began, nSuccess counts the init calls that returned  *)
(* Ok and firstModel is the tokenizer the first of them stored.            *)
(***************************************************************************)
VARIABLES TOKENIZER, fs, pc, op, arg, loc, ret, pre, nSuccess, firstModel

vars == <<TOKENIZER, fs, pc, op, arg, loc, ret, pre, nSuccess, firstModel>>

Init ==
    /\ TOKENIZER = None
    /\ fs = FsInit
    /\ pc = [t \in Threads |-> "idle"]
    /\ op = [t \in Threads |-> "none"]
    /\ arg = [t \in Threads |-> None]
    /\ loc = [t \in Threads |-> None]
    /\ ret = [t \in Threads |-> None]
    /\ pre = [t \in Threads |-> FALSE]
    /\ nSuccess = 0
    /\ firstModel = None

CanCall(t) == pc[t] \in {"idle", "done"}

Begin(t, o, a) ==
    /\ CanCall(t)
    /\ op' = [op EXCEPT ![t] = o]
    /\ arg' = [arg EXCEPT ![t] = Some(a)]
    /\ pre' = [pre EXCEPT ![t] = (TOKENIZER # None)]

\* the call of t returns r
Return(t, r) ==
    /\ pc' = [pc EXCEPT ![t] = "done"]
    /\ loc' = [loc EXCEPT ![t] = None]
    /\ ret' = [ret EXCEPT ![t] = Some(r)]

\* the call of t goes on to step s with local value v
Goto(t, s, v) ==
    /\ pc' = [pc EXCEPT ![t] = s]
    /\ loc' = [loc EXCEPT ![t] = Some(v)]
    /\ ret' = [ret EXCEPT ![t] = None]

\* an init that drops the resolver's error and loads the path as given
InitResolveIgnoreError(t, path) ==
    /\ Begin(t, "init", path)
    /\ LET model_kind == resolve_model_path(fs, path)
       IN  IF model_kind.ok
           THEN Goto(t, "load", model_kind.val.path)
           ELSE Goto(t, "load", path)
    /\ UNCHANGED <<TOKENIZER, fs, nSuccess, firstModel>>

\* an init that tests the cell before it resolves
InitResolveShortcut(t, path) ==
    /\ Begin(t, "init", path)
    /\ LET model_kind == resolve_model_path(fs, path)
       IN  IF TOKENIZER # None
           THEN Return(t, Err(ErrAlready))
           ELSE IF model_kind.ok
           THEN Goto(t, "load", model_kind.val.path)
           ELSE Return(t, model_kind)
    /\ UNCHANGED <<TOKENIZER, fs, nSuccess, firstModel>>

\* init, line 49: resolve_model_path(path)?
InitResolve(t, path) ==
    /\ Begin(t, "init", path)
    /\ LET model_kind == resolve_model_path(fs, path)
       IN  IF model_kind.ok
           THEN Goto(t, "load", model_kind.val.path)
           ELSE Return(t, model_kind)
    /\ UNCHANGED <<TOKENIZER, fs, nSuccess, firstModel>>

\* an init that installs an empty fallback tokenizer when the load fails
InitLoadFallback(t) ==
    /\ pc[t] = "load"
    /\ LET json_path == loc[t][1]
           tokenizer == FromFile(fs, json_path)
       IN  IF tokenizer.ok
           THEN Goto(t, "commit", tokenizer.val) /\ UNCHANGED TOKENIZER
           ELSE /\ Return(t, Err(ErrLoad(json_path, tokenizer.err)))
                /\ TOKENIZER' = OnceCellSet(TOKENIZER, [vocab |-> <<>>, bos |-> 0]).cell
    /\ UNCHANGED <<fs, op, arg, pre, nSuccess, firstModel>>

\* init, lines 50-53: Tokenizer::from_file(&json_path)
InitLoad(t) ==
    /\ pc[t] = "load"
    /\ LET json_path == loc[t][1]
           tokenizer == FromFile(fs, json_path)
       IN  IF tokenizer.ok
           THEN Goto(t, "commit", tokenizer.val)
           ELSE Return(t, Err(ErrLoad(json_path, tokenizer.err)))
    /\ UNCHANGED <<TOKENIZER, fs, op, arg, pre, nSuccess, firstModel>>

\* the set of the loaded tokenizer, with the error the caller maps a failure to
Commit(t, already) ==
    LET s == OnceCellSet(TOKENIZER, loc[t][1])
    IN  /\ TOKENIZER' = s.cell
        /\ Return(t, IF s.ok THEN Ok(Unit) ELSE Err(already))
        /\ nSuccess' = IF s.ok THEN nSuccess + 1 ELSE nSuccess
        /\ firstModel' = IF s.ok /\ nSuccess = 0 THEN Some(loc[t][1]) ELSE firstModel
        /\ UNCHANGED <<fs, op, arg, pre>>

\* init, lines 55-58
InitCommit(t) ==
    /\ pc[t] = "commit"
    /\ op[t] = "init"
    /\ Commit(t, ErrAlready)

\* an init_from_json that tests the cell before it loads
InitFromJsonLoadShortcut(t, json) ==
    /\ Begin(t, "init_from_json", json)
    /\ LET tokenizer == FromStr(json)
       IN  IF TOKENIZER # None
           THEN Return(t, Err(JsValue("Tokenizer already initialized")))
           ELSE IF tokenizer.ok
           THEN Goto(t, "commit", tokenizer.val)
           ELSE Return(t, Err(JsValue(tokenizer.err)))
    /\ UNCHANGED <<TOKENIZER, fs, nSuccess, firstModel>>

\* init_from_json, line 88: Tokenizer::from_str(&json)
InitFromJsonLoad(t, json) ==
    /\ Begin(t, "init_from_json", json)
    /\ LET tokenizer == FromStr(json)
       IN  IF tokenizer.ok
           THEN Goto(t, "commit", tokenizer.val)
           ELSE Return(t, Err(JsValue(tokenizer.err)))
    /\ UNCHANGED <<TOKENIZER, fs, nSuccess, firstModel>>

\* init_from_json, lines 89-92
InitFromJsonCommit(t) ==
    /\ pc[t] = "commit"
    /\ op[t] = "init_from_json"
    /\ Commit(t, JsValue("Tokenizer already initialized"))

\* an encode that fills the empty cell with a default tokenizer
EncodeLazyInit(t, text) ==
    /\ Begin(t, "encode", text)
    /\ TOKENIZER' = IF TOKENIZER = None THEN Some(FromStr(DefA).val) ELSE TOKENIZER
    /\ Return(t, encode(TOKENIZER', text))
    /\ UNCHANGED <<fs, nSuccess, firstModel>>

\* encode: one read of the cell, then work on the immutable tokenizer
Encode(t, text) ==
    /\ Begin(t, "encode", text)
    /\ Return(t, encode(TOKENIZER, text))
    /\ UNCHANGED <<TOKENIZER, fs, nSuccess, firstModel>>

\* count: as encode; loc keeps what count_internal returned
Count(t, text) ==
    /\ Begin(t, "count", text)
    /\ pc' = [pc EXCEPT ![t] = "done"]
    /\ loc' = [loc EXCEPT ![t] = Some(count_internal(TOKENIZER, text))]
    /\ ret' = [ret EXCEPT ![t] = Some(count(TOKENIZER, text))]
    /\ UNCHANGED <<TOKENIZER, fs, nSuccess, firstModel>>

\* the environment of the sequential host: the filesystem changes
FsChange ==
    /\ \E f \in FsSet : f # fs /\ fs' = f
    /\ UNCHANGED <<TOKENIZER, pc, op, arg, loc, ret, pre, nSuccess, firstModel>>

(***************************************************************************)
(* Spec: NumThreads hosts call concurrently on a fixed filesystem.         *)
(***************************************************************************)
Next ==
    \/ \E t \in Threads : \E path \in InitPaths : InitResolve(t, path)
    \/ \E t \in Threads : InitLoad(t)
    \/ \E t \in Threads : InitCommit(t)
    \/ \E t \in Threads : \E json \in JsonArgs : InitFromJsonLoad(t, json)
    \/ \E t \in Threads : InitFromJsonCommit(t)
    \/ \E t \in Threads : \E text \in TextArgs : Encode(t, text)
    \/ \E t \in Threads : \E text \in TextArgs : Count(t, text)

Spec == Init /\ [][Next]_vars

(***************************************************************************)
(* SpecSeq: one host calls one after the other, with every kind of path,   *)
(* definition and text, on a filesystem that starts as any member of FsSet *)
(* and changes under it.                                                   *)
(***************************************************************************)
Host == CHOOSE t \in Threads : \A u \in Threads : t <= u

InitSeq ==
    /\ TOKENIZER = None
    /\ fs \in FsSet
    /\ pc = [t \in Threads |-> "idle"]
    /\ op = [t \in Threads |-> "none"]
    /\ arg = [t \in Threads |-> None]
    /\ loc = [t \in Threads |-> None]
    /\ ret = [t \in Threads |-> None]
    /\ pre = [t \in Threads |-> FALSE]
    /\ nSuccess = 0
    /\ firstModel = None

NextSeq ==
    \/ \E path \in SeqPaths : InitResolve(Host, path)
    \/ InitLoad(Host)
    \/ InitCommit(Host)
    \/ \E json \in SeqJsonArgs : InitFromJsonLoad(Host, json)
    \/ InitFromJsonCommit(Host)
    \/ \E text \in Texts : Encode(Host, text)
    \/ \E text \in Texts : Count(Host, text)
    \/ FsChange

SpecSeq == InitSeq /\ [][NextSeq]_vars


(***************************************************************************)
(* Vocabulary of the properties.                                           *)
(***************************************************************************)
Done(t) == pc[t] = "done"

IsInitCall(t) == op[t] \in {"init", "init_from_json"}

Result(t) == ret[t][1]

Arg(t) == arg[t][1]

\* the source of the init call of t resolves and loads on filesystem f
ValidSource(f, t) ==
    IF op[t] = "init"
    THEN LET r == resolve_model_path(f, Arg(t))
         IN  r.ok /\ FromFile(f, r.val.path).ok
    ELSE FromStr(Arg(t)).ok

AlreadyInitialized ==
    [ok |-> FALSE, err |-> [pre |-> "Tokenizer already initialized", path |-> <<>>, post |-> ""]]

NotInitialized ==
    [ok |-> FALSE,
     err |-> [pre |-> "Tokenizer is not initialized. Call init(path) first.", path |-> <<>>, post |-> ""]]

Success == [ok |-> TRUE, val |-> "()"]

\* the step is a step of an initialisation call of t
InitStep(t) ==
    \/ \E path \in InitPaths \cup SeqPaths : InitResolve(t, path)
    \/ InitLoad(t)
    \/ InitCommit(t)
    \/ \E json \in JsonArgs \cup SeqJsonArgs : InitFromJsonLoad(t, json)
    \/ InitFromJsonCommit(t)

CommitStep(t) == InitCommit(t) \/ InitFromJsonCommit(t)

\* the step is a query of t
QueryStep(t) == \E text \in Texts : Encode(t, text) \/ Count(t, text)

(***************************************************************************)
(* C1.  Write-once: once the global cell holds a tokenizer, no step of any *)
(* init, init_from_json, encode or count call, in any interleaving,        *)
(* changes what it holds.                                                  *)
(***************************************************************************)
C1_WriteOnce == [][TOKENIZER # None => TOKENIZER' = TOKENIZER]_vars

\* a second initialisation with a loadable source was tried on the full cell
C1_Witness ==
    \E t \in Threads :
        /\ Done(t) /\ IsInitCall(t) /\ pre[t] /\ ValidSource(fs, t)
        /\ TOKENIZER # None /\ Some(FromStr(DefB).val) # TOKENIZER
        /\ op[t] = "init_from_json" /\ Arg(t) = DefB

(***************************************************************************)
(* C2.  When every host has finished an initialisation call with a valid   *)
(* source that began on the empty cell, exactly one of the calls returned  *)
(* Ok and each other one returned "already initialized"; and no more than  *)
(* one initialisation call ever returns Ok.                                *)
(***************************************************************************)
Racers == {t \in Threads : Done(t) /\ IsInitCall(t) /\ ~pre[t] /\ ValidSource(fs, t)}

C2_ExactlyOneWinner ==
    /\ nSuccess <= 1
    /\ Racers = Threads =>
          /\ Cardinality({t \in Threads : Result(t) = Success}) = 1
          /\ \A t \in Threads : Result(t) # Success => Result(t) = AlreadyInitialized

\* all hosts raced, two of them with different definitions
C2_Witness ==
    /\ Racers = Threads
    /\ \E t, u \in Threads :
          /\ op[t] = "init" /\ op[u] = "init_from_json"
          /\ Result(t) = AlreadyInitialized /\ Result(u) = Success

(***************************************************************************)
(* C3.  As claimed: every initialisation call that begins after one has    *)
(* succeeded returns "already initialized", whatever its source.           *)
(***************************************************************************)
C3_AnySourceAlreadyInitialized ==
    \A t \in Threads :
        Done(t) /\ IsInitCall(t) /\ pre[t] => Result(t) = AlreadyInitialized

(***************************************************************************)
(* C3, amended.  An initialisation call that begins after one has          *)
(* succeeded never returns Ok; it returns "already initialized" when its   *)
(* own source resolves and loads.  Every encode and count answered from    *)
(* the full cell is the answer of the first stored tokenizer.              *)
(***************************************************************************)
C3_SecondInitRejected ==
    /\ \A t \in Threads :
          Done(t) /\ IsInitCall(t) /\ pre[t] =>
              /\ ~Result(t).ok
              /\ ValidSource(fs, t) => Result(t) = AlreadyInitialized
    /\ \A t \in Threads :
          Done(t) /\ op[t] = "encode" /\ pre[t] =>
              /\ firstModel # None
              /\ LET e == TokEncode(firstModel[1], Arg(t), FALSE)
                 IN  IF e.ok THEN Result(t) = Ok(e.val.ids) ELSE ~Result(t).ok
    /\ \A t \in Threads :
          Done(t) /\ op[t] = "count" /\ pre[t] =>
              /\ firstModel # None
              /\ LET e == TokEncode(firstModel[1], Arg(t), FALSE)
                 IN  IF e.ok THEN loc[t][1] = Ok(VecLen(e.val.ids)) ELSE ~loc[t][1].ok

\* a second initialisation was rejected and an encode answered after it
C3_Witness ==
    \E t, u \in Threads :
        /\ Done(t) /\ IsInitCall(t) /\ pre[t] /\ Result(t) = AlreadyInitialized
        /\ Done(u) /\ op[u] = "encode" /\ pre[u] /\ Result(u).ok

(***************************************************************************)
(* C4.  While no initialisation call has succeeded, every finished encode  *)
(* call has returned the not-initialized error, whatever its text.         *)
(***************************************************************************)
C4_EncodeBeforeInit ==
    nSuccess = 0 =>
        \A t \in Threads : Done(t) /\ op[t] = "encode" => Result(t) = NotInitialized

\* an encode returned while an initialisation was about to commit
C4_Witness ==
    /\ nSuccess = 0
    /\ \E t, u \in Threads :
          /\ Done(t) /\ op[t] = "encode" /\ Result(t) = NotInitialized
          /\ pc[u] = "commit"

(***************************************************************************)
(* C5.  A step in which an initialisation call fails on the empty cell     *)
(* leaves the cell empty, and a commit step on the empty cell, whatever    *)
(* failed before it, stores its tokenizer and returns Ok.                  *)
(***************************************************************************)
C5_FailedInitRetryable ==
    [][\A t \in Threads :
          /\ (InitStep(t) /\ TOKENIZER = None /\ pc'[t] = "done" /\ ~ret'[t][1].ok)
                => TOKENIZER' = None
          /\ (CommitStep(t) /\ TOKENIZER = None)
                => (TOKENIZER' = Some(loc[t][1]) /\ ret'[t][1] = Success)]_vars

\* an init failed on the empty cell and a later init succeeded
C5_Witness ==
    \E t, u \in Threads :
        /\ Done(t) /\ op[t] = "init" /\ ~pre[t] /\ ~Result(t).ok
        /\ Result(t).err.pre = "Path does not exist: "
        /\ TOKENIZER # None
        /\ Done(u) /\ IsInitCall(u) /\ Result(u) = Success


(***************************************************************************)
(* C6.  Whenever a count_internal call and an encode call on the same text *)
(* have both succeeded, the count is the number of ids encode returned.    *)
(***************************************************************************)
C6_CountIsEncodeLength ==
    \A t, u \in Threads :
        (/\ Done(t) /\ op[t] = "count" /\ loc[t][1].ok
         /\ Done(u) /\ op[u] = "encode" /\ Result(u).ok
         /\ Arg(t) = Arg(u))
        => loc[t][1].val = VecLen(Result(u).val)

\* both succeeded on the same text
C6_Witness ==
    \E t, u \in Threads :
        /\ Done(t) /\ op[t] = "count" /\ loc[t][1].ok
        /\ Done(u) /\ op[u] = "encode" /\ Result(u).ok
        /\ Arg(t) = Arg(u) /\ Arg(t) = T_hello
        /\ loc[t][1].val = <<3, 0, 0, 0>>

(***************************************************************************)
(* C7.  The exported count always returns a u32, never an error: 0 when    *)
(* it ran on the empty cell and 0 when the tokenizer rejected the text.    *)
(***************************************************************************)
IsU32(v) == Len(v) = 2 /\ \A i \in 1..2 : v[i] \in 0..(2^16 - 1)

C7_CountNeverErrors ==
    \A t \in Threads :
        Done(t) /\ op[t] = "count" =>
            /\ IsU32(Result(t))
            /\ ~pre[t] => Result(t) = <<0, 0>>
            /\ (firstModel # None /\ ~TokEncode(firstModel[1], Arg(t), FALSE).ok)
                  => Result(t) = <<0, 0>>

\* count returned 0 for a text the stored tokenizer rejects
C7_Witness ==
    \E t \in Threads :
        /\ Done(t) /\ op[t] = "count" /\ pre[t] /\ Arg(t) = T_unk
        /\ ~loc[t][1].ok /\ loc[t][1].err.pre = "Failed to encode text: "
        /\ Result(t) = <<0, 0>>

(***************************************************************************)
(* C8.  On the full cell, when the stored tokenizer encodes the text into  *)
(* n ids, the exported count returns n when n <= 2^32 - 1 and 2^32 - 1     *)
(* when n is larger.                                                       *)
(***************************************************************************)
C8_ClampToU32Max ==
    \A t \in Threads :
        (Done(t) /\ op[t] = "count" /\ pre[t] /\ firstModel # None) =>
            LET e == TokEncode(firstModel[1], Arg(t), FALSE)
            IN  e.ok =>
                  LET n == VecLen(e.val.ids)
                  IN  Result(t) = IF Le64(n, <<2^16 - 1, 2^16 - 1, 0, 0>>)
                                  THEN <<n[1], n[2]>>
                                  ELSE <<2^16 - 1, 2^16 - 1>>

\* a text of 2^32 + 1 tokens was counted
C8_Witness ==
    \E t \in Threads :
        /\ Done(t) /\ op[t] = "count" /\ pre[t] /\ Arg(t) = T_huge
        /\ loc[t][1] = Ok(<<1, 0, 1, 0>>)
        /\ Result(t) = <<2^16 - 1, 2^16 - 1>>

(***************************************************************************)
(* C9.  When init is called with a path that is neither a directory nor a  *)
(* file, the call returns at once the error "Path does not exist: "        *)
(* followed by that path, and the global cell is unchanged.                *)
(***************************************************************************)
C9_MissingPathNotFound ==
    [][\A path \in SeqPaths :
          (InitResolve(Host, path) /\ ~IsDir(fs, path) /\ ~IsFile(fs, path)) =>
              /\ pc'[Host] = "done"
              /\ ret'[Host][1] =
                    [ok |-> FALSE,
                     err |-> [pre |-> "Path does not exist: ", path |-> Display(path), post |-> ""]]
              /\ TOKENIZER' = TOKENIZER]_vars

\* init returned the error for a path that exists as a device node, on the
\* full cell
C9_Witness ==
    /\ Done(Host) /\ op[Host] = "init" /\ pre[Host] /\ TOKENIZER # None
    /\ Arg(Host) \in DOMAIN fs /\ fs[Arg(Host)].kind = "other"
    /\ Result(Host).err.pre = "Path does not exist: "
    /\ Result(Host).err.path = Display(Arg(Host))

(***************************************************************************)
(* C10.  When init is called with a directory, resolution gives            *)
(* directory/tokenizer.json when that entry is a regular file, and when    *)
(* the directory has no tokenizer.json the call returns the error that     *)
(* names the directory and asks for the conversion.                        *)
(***************************************************************************)
C10_DirectoryResolution ==
    [][\A path \in SeqPaths :
          (InitResolve(Host, path) /\ IsDir(fs, path)) =>
              LET json == path \o <<N_tokenizer_json>>
              IN  /\ IsFile(fs, json) =>
                        (pc'[Host] = "load" /\ loc'[Host] = <<json>>)
                  /\ json \notin DOMAIN fs =>
                        /\ pc'[Host] = "done"
                        /\ ret'[Host][1] =
                              [ok |-> FALSE,
                               err |-> [pre |-> "No tokenizer.json found in directory: ",
                                        path |-> Display(path),
                                        post |-> ". Convert .model to tokenizer.json first."]]]_vars

\* init of a directory that holds only a legacy model returned the error
C10_Witness ==
    /\ Done(Host) /\ op[Host] = "init"
    /\ IsDir(fs, Arg(Host)) /\ IsFile(fs, Arg(Host) \o <<N_spm_model>>)
    /\ Result(Host).err.pre = "No tokenizer.json found in directory: "
    /\ Result(Host).err.path = Display(Arg(Host))


(***************************************************************************)
(* Steps, told from the states alone: the call of t changed in this step.  *)
(* A host that repeats a call with the same outcome leaves the state as it *)
(* was.                                                                    *)
(***************************************************************************)
Moved(t) ==
    \/ pc'[t] # pc[t]
    \/ op'[t] # op[t]
    \/ pre'[t] # pre[t]
    \/ op'[t] = op[t] /\ (arg'[t] # arg[t] \/ ret'[t] # ret[t])

\* t begins a call of o in this step
Begins(t, o) == pc[t] \in {"idle", "done"} /\ op'[t] = o /\ Moved(t)

(***************************************************************************)
(* C11.  When init is called with a regular file, resolution gives that    *)
(* path exactly when the name ends in a dot and json in any case after a   *)
(* non-empty stem; for every other file, one without extension included,   *)
(* the call returns the error "Provided file is not tokenizer.json: ".     *)
(***************************************************************************)
HasJsonExtension(name) ==
    /\ Len(name) >= 6
    /\ name[Len(name) - 4] = "."
    /\ name[Len(name) - 3] \in {"j", "J"}
    /\ name[Len(name) - 2] \in {"s", "S"}
    /\ name[Len(name) - 1] \in {"o", "O"}
    /\ name[Len(name)] \in {"n", "N"}

C11_FileResolution ==
    [][\A path \in SeqPaths :
          (InitResolve(Host, path) /\ IsFile(fs, path)) =>
              IF HasJsonExtension(path[Len(path)])
              THEN pc'[Host] = "load" /\ loc'[Host] = <<path>>
              ELSE /\ pc'[Host] = "done"
                   /\ ret'[Host][1] =
                         [ok |-> FALSE,
                          err |-> [pre |-> "Provided file is not tokenizer.json: ",
                                   path |-> Display(path), post |-> ""]]]_vars

\* the file b.JSON was accepted
C11_Witness ==
    /\ pc[Host] = "load" /\ op[Host] = "init"
    /\ Arg(Host) = <<N_b_JSON>> /\ IsFile(fs, Arg(Host))
    /\ loc[Host] = <<Arg(Host)>>

(***************************************************************************)
(* C12.  No encode or count call, whatever it returns and whatever the     *)
(* other hosts are doing, changes the global cell.                         *)
(***************************************************************************)
C12_QueriesReadOnly ==
    [][\A t \in Threads :
          (QueryStep(t) \/ Begins(t, "encode") \/ Begins(t, "count")) =>
              TOKENIZER' = TOKENIZER]_vars

\* a query failed on the empty cell, one failed on the full cell, and an
\* initialisation is in between
C12_Witness ==
    \E t, u \in Threads :
        /\ Done(t) /\ op[t] = "encode" /\ ~pre[t] /\ ~Result(t).ok
        /\ Done(u) /\ op[u] = "count" /\ pre[u] /\ ~loc[u][1].ok
        /\ TOKENIZER # None

(***************************************************************************)
(* C13.  Two encode calls on the same text, both answered from the full    *)
(* cell, return the same result, whatever calls ran between them.          *)
(***************************************************************************)
C13_EncodeIdempotent ==
    \A t, u \in Threads :
        (/\ Done(t) /\ op[t] = "encode" /\ pre[t]
         /\ Done(u) /\ op[u] = "encode" /\ pre[u]
         /\ Arg(t) = Arg(u))
        => Result(t) = Result(u)

\* two hosts encoded the same text with success
C13_Witness ==
    \E t, u \in Threads :
        /\ t # u
        /\ Done(t) /\ op[t] = "encode" /\ pre[t]
        /\ Done(u) /\ op[u] = "encode" /\ pre[u]
        /\ Arg(t) = Arg(u) /\ Result(t).ok /\ Result(t) = Result(u)


(***************************************************************************)
(* C14.  Every finished encode or count call either failed as not          *)
(* initialized (count: returned 0) or was answered by the one tokenizer    *)
(* that was committed, whole; and an encode that begins after an           *)
(* initialisation call has returned Ok never fails as not initialized.     *)
(***************************************************************************)
\* what encode returns from tokenizer tok
AnswerOf(tok, text) ==
    LET e == TokEncode(tok, text, FALSE)
    IN  IF e.ok
        THEN [ok |-> TRUE, val |-> e.val.ids]
        ELSE [ok |-> FALSE, err |-> [pre |-> "Failed to encode text: ", path |-> <<>>, post |-> e.err]]

\* what count_internal returns from tokenizer tok
CountOf(tok, text) ==
    LET e == TokEncode(tok, text, FALSE)
    IN  IF e.ok
        THEN [ok |-> TRUE, val |-> VecLen(e.val.ids)]
        ELSE [ok |-> FALSE, err |-> [pre |-> "Failed to encode text: ", path |-> <<>>, post |-> e.err]]

C14_AbsentOrWhole ==
    /\ \A t \in Threads :
          Done(t) /\ op[t] = "encode" =>
              \/ Result(t) = NotInitialized
              \/ firstModel # None /\ Result(t) = AnswerOf(firstModel[1], Arg(t))
    /\ \A t \in Threads :
          Done(t) /\ op[t] = "count" =>
              \/ loc[t][1] = NotInitialized /\ Result(t) = <<0, 0>>
              \/ firstModel # None /\ loc[t][1] = CountOf(firstModel[1], Arg(t))

C14_VisibleAfterSuccess ==
    \A t \in Threads :
        (nSuccess >= 1 /\ Begins(t, "encode")) => ret'[t][1] # NotInitialized

C14_NoPartialInit == []C14_AbsentOrWhole /\ [][C14_VisibleAfterSuccess]_vars

\* an encode failed as not initialized while an initialisation was about to
\* commit, and another encode was answered after the commit
C14_Witness ==
    \E t, u \in Threads :
        /\ Done(t) /\ op[t] = "encode" /\ Result(t) = NotInitialized
        /\ Done(u) /\ op[u] = "encode" /\ Result(u).ok
        /\ nSuccess = 1

(***************************************************************************)
(* C15.  Every step of an init(path) call is the next of resolve, load and *)
(* commit: a failed resolve returns the resolver's error as it is, without *)
(* a load or a set; a failed load returns "Failed to load tokenizer from", *)
(* the resolved path and the loader's message, without a set; the set is   *)
(* reached only from a load that succeeded.                                *)
(***************************************************************************)
C15_InitStepOrder ==
    [][\A t \in Threads :
          (op'[t] = "init" /\ Moved(t)) =>
              IF pc[t] \in {"idle", "done"}
              THEN LET r == resolve_model_path(fs, arg'[t][1])
                   IN  /\ TOKENIZER' = TOKENIZER /\ nSuccess' = nSuccess
                       /\ IF r.ok
                          THEN pc'[t] = "load" /\ loc'[t] = <<r.val.path>>
                          ELSE pc'[t] = "done" /\ ret'[t] = <<r>>
              ELSE IF pc[t] = "load"
              THEN LET l == FromFile(fs, loc[t][1])
                   IN  /\ TOKENIZER' = TOKENIZER /\ nSuccess' = nSuccess
                       /\ IF l.ok
                          THEN pc'[t] = "commit" /\ loc'[t] = <<l.val>>
                          ELSE /\ pc'[t] = "done"
                               /\ ret'[t][1] =
                                     [ok |-> FALSE,
                                      err |-> [pre |-> "Failed to load tokenizer from ",
                                               path |-> Display(loc[t][1]),
                                               post |-> l.err]]
              ELSE /\ pc[t] = "commit"
                   /\ pc'[t] = "done"
                   /\ ret'[t][1] \in {Success, AlreadyInitialized}]_vars

\* a load failed on the empty cell and left it empty
C15_Witness ==
    /\ Done(Host) /\ op[Host] = "init" /\ ~pre[Host]
    /\ Result(Host).err.pre = "Failed to load tokenizer from "
    /\ TOKENIZER = None /\ nSuccess = 0

(***************************************************************************)
(* C16.  The resolve step of init leaves the global cell as it was, and    *)
(* two init calls with the same path on the same filesystem resolve alike, *)
(* whether the cell was empty or full when they began.                     *)
(***************************************************************************)
ResolveFailed(t) ==
    /\ Done(t) /\ ~Result(t).ok
    /\ Result(t).err.pre \in {"Path does not exist: ",
                              "Provided file is not tokenizer.json: ",
                              "No tokenizer.json found in directory: "}

C16_SameResolution ==
    \A t, u \in Threads :
        (op[t] = "init" /\ op[u] = "init" /\ pc[t] # "idle" /\ pc[u] # "idle"
         /\ Arg(t) = Arg(u))
        => /\ ResolveFailed(t) <=> ResolveFailed(u)
           /\ ResolveFailed(t) => Result(t) = Result(u)

C16_ResolveKeepsCell ==
    \A t \in Threads :
        Begins(t, "init") => (TOKENIZER' = TOKENIZER /\ nSuccess' = nSuccess)

C16_ResolvePure == []C16_SameResolution /\ [][C16_ResolveKeepsCell]_vars

\* the same missing path was resolved on the empty and on the full cell
C16_Witness ==
    \E t, u \in Threads :
        /\ op[t] = "init" /\ op[u] = "init" /\ Arg(t) = Arg(u)
        /\ ~pre[t] /\ pre[u]
        /\ ResolveFailed(t) /\ ResolveFailed(u)

(***************************************************************************)
(* C17.  When an initialisation call has returned Ok, the global cell      *)
(* holds the tokenizer of that call's own source, and every successful     *)
(* encode and count is the answer of that tokenizer.                       *)
(***************************************************************************)
LoadedBy(t) ==
    IF op[t] = "init"
    THEN FromFile(fs, resolve_model_path(fs, Arg(t)).val.path).val
    ELSE FromStr(Arg(t)).val

C17_WinnerOwnsModel ==
    \A t \in Threads :
        (Done(t) /\ IsInitCall(t) /\ Result(t) = Success) =>
            /\ TOKENIZER = Some(LoadedBy(t))
            /\ \A u \in Threads :
                  /\ (Done(u) /\ op[u] = "encode" /\ Result(u).ok)
                        => Result(u) = AnswerOf(LoadedBy(t), Arg(u))
                  /\ (Done(u) /\ op[u] = "count" /\ loc[u][1].ok)
                        => loc[u][1] = CountOf(LoadedBy(t), Arg(u))

\* one of two racing initialisations with different definitions won
C17_Witness ==
    \E t, u \in Threads :
        /\ Done(t) /\ op[t] = "init_from_json" /\ ~pre[t] /\ Result(t) = Success
        /\ Done(u) /\ op[u] = "init" /\ ~pre[u] /\ Result(u) = AlreadyInitialized
        /\ TOKENIZER = Some(FromStr(DefB).val)

(***************************************************************************)
(* C18.  "Already initialized" is returned only by the set, which an       *)
(* initialisation call reaches after its own resolve and load.  On the     *)
(* full cell init still resolves and loads, and init_from_json still       *)
(* loads: a path that does not resolve, a file that does not load and a    *)
(* damaged definition return their own errors.                             *)
(***************************************************************************)
C18_CheckOnlyAtCommit ==
    [][\A t \in Threads :
          /\ (op'[t] \in {"init", "init_from_json"} /\ Moved(t) /\ pc'[t] = "done"
              /\ ret'[t][1] = AlreadyInitialized)
                => (pc[t] = "commit" /\ loc[t] # None)
          /\ (Begins(t, "init") /\ TOKENIZER # None) =>
                LET r == resolve_model_path(fs, arg'[t][1])
                IN  IF r.ok THEN pc'[t] = "load"
                    ELSE pc'[t] = "done" /\ ret'[t][1] = r
          /\ (op'[t] = "init" /\ Moved(t) /\ pc[t] = "load" /\ TOKENIZER # None) =>
                IF FromFile(fs, loc[t][1]).ok THEN pc'[t] = "commit"
                ELSE /\ pc'[t] = "done"
                     /\ ret'[t][1].err.pre = "Failed to load tokenizer from "
          /\ (Begins(t, "init_from_json") /\ TOKENIZER # None) =>
                IF FromStr(arg'[t][1]).ok THEN pc'[t] = "commit"
                ELSE /\ pc'[t] = "done"
                     /\ ~ret'[t][1].ok
                     /\ ret'[t][1] # AlreadyInitialized]_vars

\* on the full cell the loader ran and its failure was returned
C18_Witness ==
    /\ Done(Host) /\ op[Host] = "init" /\ pre[Host] /\ TOKENIZER # None
    /\ Result(Host).err.pre = "Failed to load tokenizer from "

=============================================================================
